---- MODULE Spec2Model ----
(***************************************************************************)
(* Model of package logger (src/logger/logger.go): the leveled logger of   *)
(* webCrawler.  Several goroutines of the host call Initialization and the *)
(* five logging functions; the package state is the two flags, the output  *)
(* sink and the mutex that serializes writes.                              *)
(*                                                                         *)
(* A message is a sequence of characters; the result of fmt.Sprintf is the *)
(* input of a logging call.  The timestamp and the call-site location are  *)
(* opaque tokens ("ts", "loc"): no property below depends on their value.  *)
(* A write of one rendered line reaches the stream in two pieces (the      *)
(* header fields, then the message and the newline), so that a missing     *)
(* lock would show as interleaved lines.                                   *)
(***************************************************************************)
EXTENDS Integers, Sequences, FiniteSets, TLC

\* ---- bounds of the model ----
NThreads == 2
MaxCalls == 2
MaxTrimLen == 3

\* ---- program constants ----
NoOwner == 0
FatalExitCode == -1

Threads == 1..NThreads
NL == "\n"
TAB == "\t"
Levels == {"INFO", "WARN", "ERROR", "FATAL", "PANIC"}
LevelFlags == Levels \cup {"DEBUG"}
OutputFlags == {"stderr", "stdout", "file"}
Streams == {"stderr", "stdout"}
TrimChars == {"a", "\r", NL}

RECURSIVE SeqsUpTo(_, _)
SeqsUpTo(S, n) ==
    IF n = 0 THEN {<<>>}
    ELSE LET shorter == SeqsUpTo(S, n - 1)
         IN  shorter \cup {Append(s, c) : s \in {x \in shorter : Len(x) = n - 1}, c \in S}

\* The formatted messages of the logging calls: without and with trailing newlines.
Msgs == {<<"a">>, <<"a", NL, NL>>}

VARIABLES loggerLevel, loggerOutput, output, mu, proc, pc, cur, written,
          acquired, ncalls, lastRet, initState, unguarded, probe

vars == <<loggerLevel, loggerOutput, output, mu, proc, pc, cur, written,
          acquired, ncalls, lastRet, initState, unguarded, probe>>

\* ---- pure functions ----

\* shouldSkipLog with the FATAL threshold one level too low (ERROR passes).
ShouldSkipLogLowFatal(minLevel, level) ==
    CASE minLevel = "WARN"  -> (IF level \in {"WARN", "ERROR", "FATAL", "PANIC"} THEN FALSE ELSE TRUE)
      [] minLevel = "ERROR" -> (IF level \in {"ERROR", "FATAL", "PANIC"} THEN FALSE ELSE TRUE)
      [] minLevel = "FATAL" -> (IF level \in {"ERROR", "FATAL", "PANIC"} THEN FALSE ELSE TRUE)
      [] minLevel = "PANIC" -> (level # "PANIC")
      [] OTHER -> FALSE

\* shouldSkipLog with the PANIC threshold suppressing every level.
ShouldSkipLogPanicToo(minLevel, level) ==
    CASE minLevel = "WARN"  -> (IF level \in {"WARN", "ERROR", "FATAL", "PANIC"} THEN FALSE ELSE TRUE)
      [] minLevel = "ERROR" -> (IF level \in {"ERROR", "FATAL", "PANIC"} THEN FALSE ELSE TRUE)
      [] minLevel = "FATAL" -> (IF level \in {"FATAL", "PANIC"} THEN FALSE ELSE TRUE)
      [] minLevel = "PANIC" -> TRUE
      [] OTHER -> FALSE

\* shouldSkipLog with FATAL exempt from the PANIC threshold.
ShouldSkipLogFatalExempt(minLevel, level) ==
    CASE minLevel = "WARN"  -> (IF level \in {"WARN", "ERROR", "FATAL", "PANIC"} THEN FALSE ELSE TRUE)
      [] minLevel = "ERROR" -> (IF level \in {"ERROR", "FATAL", "PANIC"} THEN FALSE ELSE TRUE)
      [] minLevel = "FATAL" -> (IF level \in {"FATAL", "PANIC"} THEN FALSE ELSE TRUE)
      [] minLevel = "PANIC" -> (level \notin {"FATAL", "PANIC"})
      [] OTHER -> FALSE

\* shouldSkipLog: TRUE when a call at `level` is suppressed under *loggerLevel = minLevel.
ShouldSkipLog(minLevel, level) ==
    CASE minLevel = "WARN"  -> (IF level \in {"WARN", "ERROR", "FATAL", "PANIC"} THEN FALSE ELSE TRUE)
      [] minLevel = "ERROR" -> (IF level \in {"ERROR", "FATAL", "PANIC"} THEN FALSE ELSE TRUE)
      [] minLevel = "FATAL" -> (IF level \in {"FATAL", "PANIC"} THEN FALSE ELSE TRUE)
      [] minLevel = "PANIC" -> (level # "PANIC")
      [] OTHER -> FALSE

\* The trimming with an `if` in place of the `for`: one newline at most is dropped.
TrimOneNewline(msg) ==
    IF Len(msg) > 0 /\ msg[Len(msg)] = NL
    THEN SubSeq(msg, 1, Len(msg) - 1)
    ELSE msg

\* The loop of logMessage that drops the trailing newlines of msg.
RECURSIVE TrimTrailingNewlines(_)
TrimTrailingNewlines(msg) ==
    IF Len(msg) > 0 /\ msg[Len(msg)] = NL
    THEN TrimTrailingNewlines(SubSeq(msg, 1, Len(msg) - 1))
    ELSE msg

\* fmt.Sprintf("%s\t%s\t%s\t%s\n", timestamp, level, location, msg)
LogMsg(level, msg) == <<"ts", TAB, level, TAB, "loc", TAB>> \o msg \o <<NL>>

\* The two pieces in which a rendered line reaches the stream.
HeadOf(logMsg) == SubSeq(logMsg, 1, 6)
RestOf(logMsg) == SubSeq(logMsg, 7, Len(logMsg))

\* cur[t]: the call goroutine t is in.  lastRet: the last logging call that came
\* back to its caller, and how ("skipped" by the filter, "returned" after the write).
\* initState: "none" until Initialization has run; "done" once it returned, "aborted"
\* once it panicked.  Each piece in `written` records the stream it went to and
\* the goroutine that wrote it.
NoCall == [op |-> "none", level |-> "-", msg |-> <<>>, sink |-> "-", wrote |-> 0,
           payload |-> <<>>]
NoRet == [level |-> "-", how |-> "none"]

NoProbe == [pc |-> "off"]

\* ---- initial state: the package variables after flag parsing ----
Init ==
    /\ loggerLevel \in LevelFlags
    /\ loggerOutput \in OutputFlags
    /\ output = "stderr"
    /\ mu = NoOwner
    /\ proc = [state |-> "running", by |-> NoOwner]
    /\ pc = [t \in Threads |-> "idle"]
    /\ cur = [t \in Threads |-> NoCall]
    /\ written = <<>>
    /\ acquired = <<>>
    /\ ncalls = 0
    /\ lastRet = NoRet
    /\ initState = "none"
    /\ unguarded = {}
    /\ probe = NoProbe

Running == proc.state = "running"

\* ---- Initialization ----

\* validateLoggerLevel with its default branch missing: every level is accepted.
validateAnyLevel == TRUE

\* validateLoggerLevel: TRUE when it returns, FALSE when it panics.  It reads the
\* flag only, so it is one step with the setLoggerOutput that follows it.
validateLoggerLevel == loggerLevel \in {"INFO", "WARN", "ERROR", "FATAL", "PANIC"}

\* panic(fmt.Errorf("FATAL: unsupported ...")) of Initialization.
InitPanic(t, what) ==
    /\ pc' = [pc EXCEPT ![t] = "panicking"]
    /\ cur' = [cur EXCEPT ![t] = [NoCall EXCEPT !.op = "init", !.payload = what]]
    /\ initState' = "aborted"
    /\ UNCHANGED <<output, unguarded>>

\* setLoggerOutput with both selectors resolved to os.Stderr.
setLoggerOutputStderrOnly(t) ==
    IF loggerOutput \in {"stderr", "stdout"}
    THEN /\ output' = "stderr"
         /\ unguarded' = IF mu = t THEN unguarded ELSE unguarded \cup {"write"}
         /\ initState' = "done"
         /\ UNCHANGED <<pc, cur>>
    ELSE InitPanic(t, <<"unsupported output">>)

\* setLoggerOutput: the sink is assigned, with no lock taken.
setLoggerOutput(t) ==
    IF loggerOutput \in {"stderr", "stdout"}
    THEN /\ output' = loggerOutput
         /\ unguarded' = IF mu = t THEN unguarded ELSE unguarded \cup {"write"}
         /\ initState' = "done"
         /\ UNCHANGED <<pc, cur>>
    ELSE InitPanic(t, <<"unsupported output">>)

Initialization(t) ==
    /\ Running
    /\ pc[t] = "idle"
    /\ IF validateLoggerLevel
       THEN setLoggerOutput(t)
       ELSE InitPanic(t, <<"unsupported level">>)
    /\ UNCHANGED <<loggerLevel, loggerOutput, mu, proc, written, acquired, ncalls,
                   lastRet, probe>>

\* ---- a logging call ----

\* logLevel, formatLogMessage and the part of logMessage before mu.Lock().
logLevel(t, level, m) ==
    /\ Running
    /\ pc[t] = "idle"
    /\ ncalls < MaxCalls
    /\ ncalls' = ncalls + 1
    /\ IF ShouldSkipLog(loggerLevel, level)
       THEN /\ lastRet' = [level |-> level, how |-> "skipped"]
            /\ UNCHANGED <<pc, cur>>
       ELSE /\ cur' = [cur EXCEPT ![t] = [NoCall EXCEPT !.op = "log", !.level = level,
                                           !.msg = TrimTrailingNewlines(m)]]
            /\ pc' = [pc EXCEPT ![t] = "lock"]
            /\ UNCHANGED lastRet
    /\ UNCHANGED <<loggerLevel, loggerOutput, output, mu, proc, written, acquired,
                   initState, unguarded, probe>>

Infof(t, m) == logLevel(t, "INFO", m)
Warnf(t, m) == logLevel(t, "WARN", m)
Errorf(t, m) == logLevel(t, "ERROR", m)
Fatalf(t, m) == logLevel(t, "FATAL", m)
Panicf(t, m) == logLevel(t, "PANIC", m)

\* mu.Lock() that does not wait for the holder.
LockWithoutWaiting(t) ==
    /\ proc.state = "running"
    /\ pc[t] = "lock"
    /\ mu' = t
    /\ acquired' = Append(acquired, t)
    /\ pc' = [pc EXCEPT ![t] = "write"]
    /\ UNCHANGED <<loggerLevel, loggerOutput, output, proc, cur, written, ncalls, lastRet,
                   initState, unguarded, probe>>

\* mu.Lock()
Lock(t) ==
    /\ Running
    /\ pc[t] = "lock"
    /\ mu = NoOwner
    /\ mu' = t
    /\ acquired' = Append(acquired, t)
    /\ pc' = [pc EXCEPT ![t] = "write"]
    /\ UNCHANGED <<loggerLevel, loggerOutput, output, proc, cur, written, ncalls, lastRet,
                   initState, unguarded, probe>>

\* fmt.Fprint(output, logMsg): the sink is read, the first piece is written.
WriteHead(t) ==
    /\ Running
    /\ pc[t] = "write"
    /\ unguarded' = IF mu = t THEN unguarded ELSE unguarded \cup {"read"}
    /\ cur' = [cur EXCEPT ![t].sink = output, ![t].wrote = cur[t].wrote + 1]
    /\ written' = Append(written, [by |-> t, sink |-> output, part |-> "head",
                                   data |-> HeadOf(LogMsg(cur[t].level, cur[t].msg))])
    /\ pc' = [pc EXCEPT ![t] = "writeRest"]
    /\ UNCHANGED <<loggerLevel, loggerOutput, output, mu, proc, acquired, ncalls, lastRet,
                   initState, probe>>

\* fmt.Fprint(output, logMsg): the rest of the line goes to the sink read above.
WriteRest(t) ==
    /\ Running
    /\ pc[t] = "writeRest"
    /\ written' = Append(written, [by |-> t, sink |-> cur[t].sink, part |-> "rest",
                                   data |-> RestOf(LogMsg(cur[t].level, cur[t].msg))])
    /\ cur' = [cur EXCEPT ![t].wrote = cur[t].wrote + 1]
    /\ pc' = [pc EXCEPT ![t] = "unlock"]
    /\ UNCHANGED <<loggerLevel, loggerOutput, output, mu, proc, acquired, ncalls,
                   lastRet, initState, unguarded, probe>>

\* logMessage going on to the level switch with the mutex still held.
UnlockMissing(t) ==
    /\ proc.state = "running"
    /\ pc[t] = "unlock"
    /\ pc' = [pc EXCEPT ![t] = "after"]
    /\ UNCHANGED <<loggerLevel, loggerOutput, output, mu, proc, cur, written, acquired,
                   ncalls, lastRet, initState, unguarded, probe>>

\* mu.Unlock()
Unlock(t) ==
    /\ Running
    /\ pc[t] = "unlock"
    /\ mu' = NoOwner
    /\ pc' = [pc EXCEPT ![t] = "after"]
    /\ UNCHANGED <<loggerLevel, loggerOutput, output, proc, cur, written, acquired,
                   ncalls, lastRet, initState, unguarded, probe>>

\* switch level { case "PANIC": panic(errors.New(msg)); case "FATAL": os.Exit(-1) }
AfterWrite(t) ==
    /\ Running
    /\ pc[t] = "after"
    /\ CASE cur[t].level = "PANIC" ->
              /\ pc' = [pc EXCEPT ![t] = "panicking"]
              /\ cur' = [cur EXCEPT ![t].payload = cur[t].msg]
              /\ UNCHANGED <<proc, lastRet>>
         [] cur[t].level = "FATAL" ->
              /\ proc' = [state |-> "exited", by |-> t, code |-> FatalExitCode]
              /\ UNCHANGED <<pc, cur, lastRet>>
         [] OTHER ->
              /\ pc' = [pc EXCEPT ![t] = "idle"]
              /\ cur' = [cur EXCEPT ![t] = NoCall]
              /\ lastRet' = [level |-> cur[t].level, how |-> "returned"]
              /\ proc' = proc
    /\ UNCHANGED <<loggerLevel, loggerOutput, output, mu, written, acquired, ncalls,
                   initState, unguarded, probe>>

\* ---- what the Go runtime does with a panic ----

\* A deferred recover() of the host stops the unwinding; the goroutine goes on.
Recover(t) ==
    /\ Running
    /\ pc[t] = "panicking"
    /\ pc' = [pc EXCEPT ![t] = "idle"]
    /\ cur' = [cur EXCEPT ![t] = NoCall]
    /\ UNCHANGED <<loggerLevel, loggerOutput, output, mu, proc, written, acquired,
                   ncalls, lastRet, initState, unguarded, probe>>

\* No recover(): the runtime terminates the program.
Crash(t) ==
    /\ Running
    /\ pc[t] = "panicking"
    /\ proc' = [state |-> "crashed", by |-> t]
    /\ UNCHANGED <<loggerLevel, loggerOutput, output, mu, pc, cur, written, acquired,
                   ncalls, lastRet, initState, unguarded, probe>>

Next ==
    \E t \in Threads :
        \/ Initialization(t)
        \/ \E m \in Msgs : Infof(t, m)
        \/ \E m \in Msgs : Warnf(t, m)
        \/ \E m \in Msgs : Errorf(t, m)
        \/ \E m \in Msgs : Fatalf(t, m)
        \/ \E m \in Msgs : Panicf(t, m)
        \/ Lock(t)
        \/ WriteHead(t)
        \/ WriteRest(t)
        \/ Unlock(t)
        \/ AfterWrite(t)
        \/ Recover(t)
        \/ Crash(t)

Spec == Init /\ [][Next]_vars

\* The Go scheduler runs every runnable goroutine, and sync.Mutex hands the lock to a
\* waiter that has been passed over (starvation mode): a goroutine blocked in
\* mu.Lock() is not overtaken for ever.
Fairness ==
    \A t \in Threads :
        /\ SF_vars(Lock(t))
        /\ WF_vars(WriteHead(t))
        /\ WF_vars(WriteRest(t))
        /\ WF_vars(Unlock(t))
        /\ WF_vars(AfterWrite(t))

FairSpec == Spec /\ Fairness

\* ---- the trimming and rendering of logMessage, applied to chosen messages ----

RECURSIVE Newlines(_)
Newlines(k) == IF k = 0 THEN <<>> ELSE <<NL>> \o Newlines(k - 1)

TrimInputs ==
    {[pc |-> "input", base |-> b, k |-> k, msg |-> <<>>, again |-> <<>>, line |-> <<>>] :
        b \in SeqsUpTo(TrimChars, MaxTrimLen), k \in 0..MaxTrimLen}

InitTrim ==
    /\ loggerLevel = "INFO"
    /\ loggerOutput = "stderr"
    /\ output = "stderr"
    /\ mu = NoOwner
    /\ proc = [state |-> "running", by |-> NoOwner]
    /\ pc = [t \in Threads |-> "idle"]
    /\ cur = [t \in Threads |-> NoCall]
    /\ written = <<>>
    /\ acquired = <<>>
    /\ ncalls = 0
    /\ lastRet = NoRet
    /\ initState = "none"
    /\ unguarded = {}
    /\ probe \in {p \in TrimInputs : Len(p.base) + p.k <= MaxTrimLen}

MainVars == <<loggerLevel, loggerOutput, output, mu, proc, pc, cur, written,
              acquired, ncalls, lastRet, initState, unguarded>>

\* logMessage lines 108-110 on the message base followed by k newlines.
TrimMessage ==
    /\ probe.pc = "input"
    /\ probe' = [probe EXCEPT !.pc = "trimmed",
                              !.msg = TrimTrailingNewlines(probe.base \o Newlines(probe.k))]
    /\ UNCHANGED MainVars

\* The same loop on its own result.
TrimAgain ==
    /\ probe.pc = "trimmed"
    /\ probe' = [probe EXCEPT !.pc = "twice", !.again = TrimTrailingNewlines(probe.msg)]
    /\ UNCHANGED MainVars

\* logMessage line 111.
RenderLine ==
    /\ probe.pc = "twice"
    /\ \E level \in Levels :
          probe' = [probe EXCEPT !.pc = "rendered", !.line = LogMsg(level, probe.msg)]
    /\ UNCHANGED MainVars

NextTrim == TrimMessage \/ TrimAgain \/ RenderLine

SpecTrim == InitTrim /\ [][NextTrim]_vars

\* ---- the claims ----

LevelOrder == <<"INFO", "WARN", "ERROR", "FATAL", "PANIC">>
Rank(l) == CHOOSE i \in DOMAIN LevelOrder : LevelOrder[i] = l

\* A call at level L is emitted under minimum M: L >= M, or M is no valid level.
Emits(M, L) == M \notin Levels \/ Rank(L) >= Rank(M)

\* The pieces of `written` come in pairs: piece 2k-1 is a head, piece 2k its rest.
NumHeads == (Len(written) + 1) \div 2
HeadAt(k) == written[2 * k - 1]
RestAt(k) == written[2 * k]
Complete(k) == 2 * k <= Len(written)
LineAt(k) == HeadAt(k).data \o RestAt(k).data

\* m without its trailing newlines, stated on positions rather than by a loop.
Stripped(m) ==
    LET keep == {i \in 1..Len(m) : m[i] # NL}
        n == IF keep = {} THEN 0 ELSE CHOOSE i \in keep : \A j \in keep : j <= i
    IN  SubSeq(m, 1, n)

EndsWithNewline(m) == Len(m) > 0 /\ m[Len(m)] = NL

\* One rendered record: timestamp, level, location, message, then one newline.
IsRecord(line) ==
    /\ Len(line) >= 7
    /\ line[1] = "ts" /\ line[2] = TAB
    /\ line[3] \in Levels /\ line[4] = TAB
    /\ line[5] = "loc" /\ line[6] = TAB
    /\ line[Len(line)] = NL
    /\ \A i \in 7..(Len(line) - 1) : line[i] \notin {TAB, NL}

\* C1: a logging call at level L is emitted (shouldSkipLog returns false) if and only
\* if L >= M in the order INFO < WARN < ERROR < FATAL < PANIC, M being the configured
\* minimum; when M is none of the five levels every call is emitted.
C1_FilterFollowsOrder ==
    /\ lastRet.how = "skipped" => ~Emits(loggerLevel, lastRet.level)
    /\ lastRet.how = "returned" => Emits(loggerLevel, lastRet.level)
    /\ \A t \in Threads : cur[t].op = "log" => Emits(loggerLevel, cur[t].level)

C1_Witness ==
    /\ loggerLevel = "FATAL"
    /\ lastRet = [level |-> "ERROR", how |-> "skipped"]
    /\ \E t \in Threads : cur[t].op = "log" /\ cur[t].level = "FATAL"

\* C2: writes to the sink are mutually exclusive (at most one caller is inside the
\* write step), every line of the output is the complete four-field record of one
\* call, no two records are interleaved, and the lines appear in the order in which
\* their callers acquired the lock.
C2_WritesSerialized ==
    /\ Cardinality({t \in Threads : pc[t] \in {"write", "writeRest", "unlock"}}) <= 1
    /\ \A k \in 1..NumHeads :
          /\ HeadAt(k).part = "head"
          /\ acquired[k] = HeadAt(k).by
          /\ Complete(k) =>
                /\ RestAt(k).part = "rest"
                /\ RestAt(k).by = HeadAt(k).by
                /\ RestAt(k).sink = HeadAt(k).sink
                /\ IsRecord(LineAt(k))
          /\ ~Complete(k) => pc[HeadAt(k).by] = "writeRest"
    /\ Len(acquired) \in {NumHeads, NumHeads + 1}

C2_Witness ==
    /\ Len(written) = 4
    /\ HeadAt(1).by # HeadAt(2).by
    /\ HeadAt(1).sink = HeadAt(2).sink

\* C3: a FATAL call always terminates the process, whatever the configured minimum:
\* control never comes back to the caller of Fatalf.
C3_FatalNeverReturns == lastRet.level # "FATAL"

\* C4: a PANIC call is never filtered and never returns normally; when the unwind
\* signal is raised the one line of the call has been written whole, and the payload
\* of the signal is the message without its trailing newlines.
C4_PanicWritesThenUnwinds ==
    /\ lastRet.level # "PANIC"
    /\ \A t \in Threads :
          (pc[t] = "panicking" /\ cur[t].op = "log") =>
              /\ cur[t].level = "PANIC"
              /\ mu # t
              /\ cur[t].wrote = 2
              /\ ~EndsWithNewline(cur[t].payload)
              /\ cur[t].payload \in {Stripped(m) : m \in Msgs}
              /\ \E k \in 1..NumHeads :
                    /\ Complete(k)
                    /\ HeadAt(k).by = t
                    /\ LineAt(k) = LogMsg("PANIC", cur[t].payload)
                    /\ \A j \in (k + 1)..NumHeads : HeadAt(j).by # t

C4_Witness ==
    /\ loggerLevel = "PANIC"
    /\ \E t \in Threads : pc[t] = "panicking" /\ cur[t].op = "log"

\* The level of the logging call evaluated in a step that advances ncalls.
BelowMinimum(L) == loggerLevel \in Levels /\ Rank(L) < Rank(loggerLevel)
CallProceeds(t) == pc[t] = "idle" /\ pc'[t] = "lock"

InitUnwinding == \E t \in Threads : pc[t] = "panicking" /\ cur[t].op = "init"

\* C6 as stated: once Initialization has aborted on an invalid option, no logging
\* call is evaluated any more.
C6_NoCallAfterInitAbort ==
    [][(initState = "aborted" /\ ~InitUnwinding) => ncalls' = ncalls]_vars

\* C6 as amended: Initialization panics when the level flag is none of the five
\* levels, before the selector is resolved (the sink stays as it was), and with a
\* valid level when the selector is neither stderr nor stdout; it panics in no other
\* case.  When the host does not recover the panic the process terminates, and from
\* then on no logging call is evaluated.
C6_InitPanicsOnInvalidOption ==
    /\ [](/\ loggerLevel \notin Levels =>
                /\ initState # "done"
                /\ output = "stderr"
                /\ unguarded = {}
                /\ \A t \in Threads :
                      (pc[t] = "panicking" /\ cur[t].op = "init") =>
                          cur[t].payload = <<"unsupported level">>
          /\ loggerOutput \notin Streams => (initState # "done" /\ output = "stderr")
          /\ (loggerLevel \in Levels /\ loggerOutput \in Streams) => initState # "aborted")
    /\ [][proc.state # "running" => ncalls' = ncalls]_vars

C6_Witness ==
    /\ loggerLevel = "DEBUG"
    /\ initState = "aborted"
    /\ proc.state = "crashed"
    /\ ncalls > 0

C8_TrimIdempotent ==
    /\ probe.pc \in {"trimmed", "twice", "rendered"} =>
          /\ probe.msg = Stripped(probe.base)
          /\ ~EndsWithNewline(probe.msg)
    /\ probe.pc \in {"twice", "rendered"} => probe.again = probe.msg
    /\ probe.pc = "rendered" =>
          /\ probe.line[Len(probe.line)] = NL
          /\ probe.line[Len(probe.line) - 1] # NL
          /\ SubSeq(probe.line, 7, Len(probe.line) - 1) = Stripped(probe.base)

C8_Witness ==
    /\ probe.pc = "rendered"
    /\ probe.base = <<"a">>
    /\ probe.k = 2
    /\ probe.line = LogMsg("WARN", <<"a">>)

\* C9: no operation reads or writes the output sink without holding the lock.
C9_SinkOnlyUnderLock == unguarded = {}

LineWritten(t) == pc[t] \in {"unlock", "after", "panicking"}

\* The lock is held by a goroutine only between mu.Lock() and mu.Unlock().
LockHeldOnlyForWrite ==
    /\ \A t \in Threads : (mu = t) <=> (pc[t] \in {"write", "writeRest", "unlock"})
    /\ proc.state # "running" => mu # proc.by

\* C10 as stated: unless a FATAL call has terminated the process, every call at an
\* emitting level that waits for the lock gets it and writes its line.
C10_WritesUnlessFatalExit ==
    \A t \in Threads :
        (pc[t] = "lock") ~> (LineWritten(t) \/ proc.state = "exited")

\* C10 as amended: a call has released the lock before it returns, unwinds or exits,
\* and unless the process has terminated (a FATAL call, or a panic that the host
\* does not recover) every call at an emitting level that waits for the lock gets it
\* and writes its line.
C10_WritesUnlessTerminated ==
    /\ []LockHeldOnlyForWrite
    /\ \A t \in Threads :
          (pc[t] = "lock") ~> (LineWritten(t) \/ proc.state # "running")

C10_Witness ==
    \E t, u \in Threads :
        /\ t # u
        /\ pc[t] = "panicking" /\ cur[t].op = "log"
        /\ pc[u] = "unlock"
        /\ Len(written) = 4
        /\ HeadAt(1).by = t

====
